---- MODULE Spec2Model ----
(***************************************************************************)
(* Model of the document-to-audiobook application (src/App.tsx and the     *)
(* Gemini service module src/unnamed/part_000).                            *)
(*                                                                         *)
(* Strings are sequences of one-character strings.  The hosted LLM is the  *)
(* environment: an outstanding request is answered by a separate step that *)
(* either resolves or rejects it.                                          *)
(***************************************************************************)
EXTENDS Integers, Sequences, FiniteSets, TLC

(***************************************************************************)
(* Bounds of the model.                                                    *)
(***************************************************************************)
\* longest text given to splitTextIntoChunks in SpecSplit
MaxTextLen == 5
\* largest maxLength given to splitTextIntoChunks in SpecSplit
MaxMaxLength == 3
\* most API requests outstanding at a time: no handler starts beyond it
MaxOutstanding == 4
\* most FileReaders reading a .txt file at a time: no file is chosen beyond it
MaxTextReads == 2
\* the TTS character limit (4800 in the source) scaled to the model's texts
TtsLimitScaled == 4

\* null and undefined where a text may stand (texts are sequences, so are these)
Null == <<"null">>
Undefined == <<"undefined">>
\* null where a message or another plain string may stand
NoString == "null"

(***************************************************************************)
(* String helpers (JavaScript String.prototype)                            *)
(***************************************************************************)
Min(a, b) == IF a < b THEN a ELSE b

\* white space as String.prototype.trim and the regexp class \s see it
IsSpace(c) == c \in {" ", "\n"}

\* s.substring(from, to) with 0-based from, exclusive to, clipped to the string
Substring(s, from, to) == SubSeq(s, from + 1, Min(to, Len(s)))

\* s.trim()
Trim(s) ==
    IF \A i \in 1..Len(s) : IsSpace(s[i]) THEN <<>>
    ELSE LET first == CHOOSE i \in 1..Len(s) :
                        ~IsSpace(s[i]) /\ \A j \in 1..(i - 1) : IsSpace(s[j])
             last == CHOOSE i \in 1..Len(s) :
                        ~IsSpace(s[i]) /\ \A j \in (i + 1)..Len(s) : IsSpace(s[j])
         IN SubSeq(s, first, last)

RECURSIVE Flatten(_)
\* the concatenation of a sequence of sequences
Flatten(ss) == IF ss = <<>> THEN <<>> ELSE Head(ss) \o Flatten(Tail(ss))

(***************************************************************************)
(* splitTextIntoChunks (src/App.tsx:191-241)                               *)
(***************************************************************************)
Terminators == {".", "!", "?"}

\* first index >= p holding a sentence terminator, Len(text)+1 when none
NextTerminator(text, p) ==
    IF \E k \in p..Len(text) : text[k] \in Terminators
    THEN CHOOSE k \in p..Len(text) :
            text[k] \in Terminators /\ \A j \in p..(k - 1) : text[j] \notin Terminators
    ELSE Len(text) + 1

\* first index >= p holding no sentence terminator, Len(text)+1 when none
NextNonTerminator(text, p) ==
    IF \E k \in p..Len(text) : text[k] \notin Terminators
    THEN CHOOSE k \in p..Len(text) :
            text[k] \notin Terminators /\ \A j \in p..(k - 1) : text[j] \in Terminators
    ELSE Len(text) + 1

RECURSIVE MatchSentencesFrom(_, _)
\* text.match(/[^.!?]+[.!?]+/g) scanning from index p: the successive leftmost
\* greedy matches, each a run of non-terminators followed by a run of terminators
MatchSentencesFrom(text, p) ==
    IF p > Len(text) THEN <<>>
    ELSE IF text[p] \in Terminators THEN MatchSentencesFrom(text, p + 1)
    ELSE LET q == NextTerminator(text, p)
         IN IF q > Len(text) THEN <<>>
            ELSE LET r == NextNonTerminator(text, q)
                 IN <<SubSeq(text, p, r - 1)>> \o MatchSentencesFrom(text, r)

\* text.match(/[^.!?]+[.!?]+/g) || []
MatchSentences(text) == MatchSentencesFrom(text, 1)

RECURSIVE SliceFrom(_, _, _)
\* the while loop pushing s.substring(i, i + maxLength), i += maxLength
SliceFrom(s, i, maxLength) ==
    IF i < Len(s)
    THEN <<Substring(s, i, i + maxLength)>> \o SliceFrom(s, i + maxLength, maxLength)
    ELSE <<>>

\* (mutation: the joining space is left out of the length that is compared)
ChunkOverflowsNoSpace(currentChunk, trimmedSentence, maxLength) ==
    Len(currentChunk \o trimmedSentence) > maxLength

\* (currentChunk + " " + trimmedSentence).length > maxLength
ChunkOverflows(currentChunk, trimmedSentence, maxLength) ==
    Len(currentChunk \o <<" ">> \o trimmedSentence) > maxLength

RECURSIVE ChunkLoop(_, _, _, _, _)
\* the for loop over the sentences, from sentence i on, with the loop's two
\* variables chunks and currentChunk; the result is the returned array
ChunkLoop(sentences, i, chunks, currentChunk, maxLength) ==
    IF i > Len(sentences)
    THEN IF Len(currentChunk) > 0 THEN Append(chunks, currentChunk) ELSE chunks
    ELSE LET trimmedSentence == Trim(sentences[i])
         IN IF Len(trimmedSentence) = 0
            THEN ChunkLoop(sentences, i + 1, chunks, currentChunk, maxLength)
            ELSE IF Len(trimmedSentence) > maxLength
            THEN ChunkLoop(sentences, i + 1,
                           (IF Len(currentChunk) > 0
                            THEN Append(chunks, currentChunk) ELSE chunks)
                               \o SliceFrom(trimmedSentence, 0, maxLength),
                           <<>>, maxLength)
            ELSE IF ChunkOverflows(currentChunk, trimmedSentence, maxLength)
            THEN ChunkLoop(sentences, i + 1, Append(chunks, currentChunk),
                           trimmedSentence, maxLength)
            ELSE ChunkLoop(sentences, i + 1, chunks,
                           currentChunk
                               \o (IF Len(currentChunk) > 0 THEN <<" ">> ELSE <<>>)
                               \o trimmedSentence,
                           maxLength)

splitTextIntoChunks(text, maxLength) ==
    LET sentences == MatchSentences(text)
    IN IF Len(sentences) = 0
       THEN IF Len(text) > maxLength
            THEN SliceFrom(text, 0, maxLength)
            ELSE IF text # <<>> THEN <<text>> ELSE <<>>
       ELSE ChunkLoop(sentences, 1, <<>>, <<>>, maxLength)

(***************************************************************************)
(* The Gemini service module (src/unnamed/part_000)                        *)
(***************************************************************************)
ResponseMode == {"Completo", "Resumido", "PuntosClave"}
Languages == {"es", "en"}

\* /^(---|___|\*\*\*)\s*$/gm on a text of one line: a horizontal rule
RemoveHorizontalRule(s) ==
    IF /\ Len(s) >= 3
       /\ \E m \in {"-", "_", "*"} : \A i \in 1..3 : s[i] = m
       /\ \A i \in 4..Len(s) : IsSpace(s[i])
    THEN <<>> ELSE s

\* /^(\*|-|\+)\s+/gm on a text of one line: a bullet marker and the space after it
RemoveBulletMarker(s) ==
    IF Len(s) >= 2 /\ s[1] \in {"*", "-", "+"} /\ IsSpace(s[2])
    THEN LET k == IF \E i \in 2..Len(s) : ~IsSpace(s[i])
                  THEN CHOOSE i \in 2..Len(s) :
                          ~IsSpace(s[i]) /\ \A j \in 2..(i - 1) : IsSpace(s[j])
                  ELSE Len(s) + 1
         IN SubSeq(s, k, Len(s))
    ELSE s

RECURSIVE RemoveMarkers(_)
\* the bold, italic and strikethrough markers of line 81 replaced by ''
\* (its code marker, the backquote, is not a character of this model's texts)
RemoveMarkers(s) ==
    IF s = <<>> THEN <<>>
    ELSE IF s[1] \in {"*", "_"} THEN RemoveMarkers(Tail(s))
    ELSE IF Len(s) >= 2 /\ s[1] = "~" /\ s[2] = "~" THEN RemoveMarkers(SubSeq(s, 3, Len(s)))
    ELSE <<s[1]>> \o RemoveMarkers(Tail(s))

RECURSIVE NewlinesToSpace(_)
\* /\n+/g replaced by ' '
NewlinesToSpace(s) ==
    IF s = <<>> THEN <<>>
    ELSE IF s[1] = "\n"
    THEN LET k == IF \E i \in 1..Len(s) : s[i] # "\n"
                  THEN CHOOSE i \in 1..Len(s) :
                          s[i] # "\n" /\ \A j \in 1..(i - 1) : s[j] = "\n"
                  ELSE Len(s) + 1
         IN <<" ">> \o NewlinesToSpace(SubSeq(s, k, Len(s)))
    ELSE <<s[1]>> \o NewlinesToSpace(Tail(s))

RECURSIVE CollapseSpaces(_)
\* /\s{2,}/g replaced by ' '
CollapseSpaces(s) ==
    IF s = <<>> THEN <<>>
    ELSE IF Len(s) >= 2 /\ IsSpace(s[1]) /\ IsSpace(s[2])
    THEN LET k == IF \E i \in 1..Len(s) : ~IsSpace(s[i])
                  THEN CHOOSE i \in 1..Len(s) :
                          ~IsSpace(s[i]) /\ \A j \in 1..(i - 1) : IsSpace(s[j])
                  ELSE Len(s) + 1
         IN <<" ">> \o CollapseSpaces(SubSeq(s, k, Len(s)))
    ELSE <<s[1]>> \o CollapseSpaces(Tail(s))

\* cleanTextForSpeech.  The texts of this model hold none of '#', '>' and '[',
\* so the header, blockquote and link rules (lines 71-75) match nowhere and are
\* left out; the texts hold one line, so ^ and $ are the ends of the text.
cleanTextForSpeech(text) ==
    Trim(CollapseSpaces(NewlinesToSpace(RemoveMarkers(
        RemoveBulletMarker(RemoveHorizontalRule(text))))))

\* voiceName: 'Kore' for Spanish, 'Zephyr' for English
voiceName(language) == IF language = "es" THEN "Kore" ELSE "Zephyr"

(***************************************************************************)
(* The hosted model, as far as the application depends on it.  Its answers *)
(* are functions of the request, so that a stored answer can be traced to  *)
(* the request it answers.                                                 *)
(***************************************************************************)
\* character codes of the model's alphabet (String.prototype.charCodeAt)
CharCode(c) ==
    CASE c = "a" -> 97 [] c = "b" -> 98 [] c = "e" -> 101 [] c = "." -> 46
      [] c = " " -> 32 [] c = "*" -> 42 [] OTHER -> 63

\* the 16-bit PCM the speech model returns for a prompt: one little-endian
\* sample per character of the text read, its high byte set by the voice
SpokenPcm(cleanedText, voice) ==
    Flatten([i \in 1..Len(cleanedText) |->
                <<CharCode(cleanedText[i]), IF voice = "Kore" THEN 0 ELSE 1>>])

\* the padding character '=' of base64; the other characters are written as
\* their index 0..63 in the base64 alphabet
Pad == 64

RECURSIVE Btoa(_)
\* base64 encoding of a byte sequence (the inlineData.data of a response)
Btoa(bytes) ==
    IF bytes = <<>> THEN <<>>
    ELSE IF Len(bytes) = 1
    THEN <<bytes[1] \div 4, (bytes[1] % 4) * 16, Pad, Pad>>
    ELSE IF Len(bytes) = 2
    THEN <<bytes[1] \div 4, (bytes[1] % 4) * 16 + bytes[2] \div 16,
           (bytes[2] % 16) * 4, Pad>>
    ELSE <<bytes[1] \div 4, (bytes[1] % 4) * 16 + bytes[2] \div 16,
           (bytes[2] % 16) * 4 + bytes[3] \div 64, bytes[3] % 64>>
         \o Btoa(SubSeq(bytes, 4, Len(bytes)))

\* the English text the model returns for a Spanish text
TranslationOf(text) ==
    [i \in 1..Len(text) |-> IF text[i] = "a" THEN "e" ELSE text[i]]
(***************************************************************************)
(* Application state (src/App.tsx:53-71) and the frames of the handlers    *)
(* that are suspended at an await                                          *)
(***************************************************************************)
VARIABLES
    documentText, fileName, inputMode,           \* the input view
    analysisResults, translatedResults,          \* mode -> text, or null
    activeTab, displayedLanguage,
    audioSrc, audioBlob,
    isAnalyzing, isGeneratingAudio, isTranslating,
    generationProgress, error, warning, isProcessed,
    isParsingPdf,
    isLameJsReady, lameScript,                   \* the lamejs <script> element
    analysisRun, translateRun, audioRun,         \* frames of the async handlers
    orphanAnalysis, orphanSpeech,                \* requests outliving their handler
    isPdfJsReady, pdfScript,                     \* the pdf.js <script> element
    textReads, pdfRun,                           \* FileReaders at work, handleFileChange
    splitText, splitMaxLength, splitChunks, splitDone   \* SpecSplit only

appVars == <<documentText, fileName, inputMode, analysisResults, translatedResults,
             activeTab, displayedLanguage, audioSrc, audioBlob, isAnalyzing,
             isGeneratingAudio, isTranslating, generationProgress, error, warning,
             isProcessed, isParsingPdf, isLameJsReady, lameScript, analysisRun, translateRun,
             audioRun, orphanAnalysis, orphanSpeech>>
uploadVars == <<isPdfJsReady, pdfScript, textReads, pdfRun>>
splitVars == <<splitText, splitMaxLength, splitChunks, splitDone>>
vars == <<appVars, uploadVars, splitVars>>

\* TTS_CHARACTER_LIMIT (4800 in the source), at the scale of the model's texts
TTS_CHARACTER_LIMIT == TtsLimitScaled

\* (mutation: the first mode is requested a second time)
modesToGenerateRepeated == <<"Completo", "Resumido", "PuntosClave", "Completo">>

\* const modesToGenerate = [Completo, Resumido, PuntosClave]
modesToGenerate == <<"Completo", "Resumido", "PuntosClave">>

\* JavaScript truthiness of an optional string
Truthy(text) == text \notin {Null, Undefined, <<>>}

\* results === null, for analysisResults and translatedResults
NullResults == [m \in ResponseMode |-> Null]

\* results?.[mode]
Lookup(results, mode) == IF results = NullResults THEN Undefined ELSE results[mode]

\* { ...prev, [mode]: text }
SpreadWith(prev, mode, text) ==
    [m \in ResponseMode |->
        IF m = mode THEN text
        ELSE IF prev = NullResults THEN Undefined ELSE prev[m]]

\* the values of generationProgress
NoProgress == [kind |-> "null", completed |-> 0, total |-> 0]
\* `Generando audio (${completed}/${total})...`
ProgressCount(completed, total) ==
    [kind |-> "count", completed |-> completed, total |-> total]

\* audioBlob === null
NoBlob == [type |-> NoString, data |-> <<>>]
NoAudioBlob == [blob |-> NoBlob, lang |-> NoString]

(***************************************************************************)
(* Promises                                                                *)
(***************************************************************************)
\* a promise of a service call: pending with the request that was sent, or
\* settled with its value or its error
PendingPromise(request) == [st |-> "pending", req |-> request, val |-> Null]
RejectedPromise(request, reason) == [st |-> "rejected", req |-> request, val |-> reason]
FulfilledPromise(request, value) == [st |-> "fulfilled", req |-> request, val |-> value]

\* the state of Promise.all(promises)
PromiseAllState(promises) ==
    IF \E i \in 1..Len(promises) : promises[i].st = "rejected" THEN "rejected"
    ELSE IF \A i \in 1..Len(promises) : promises[i].st = "fulfilled" THEN "fulfilled"
    ELSE "pending"

\* the value of a fulfilled Promise.all(promises): the values in the order of
\* the promises
PromiseAllValues(promises) == [i \in 1..Len(promises) |-> promises[i].val]

\* the reason of a rejected Promise.all(promises)
PromiseAllReason(promises) ==
    promises[CHOOSE i \in 1..Len(promises) :
                /\ promises[i].st = "rejected"
                /\ \A j \in 1..(i - 1) : promises[j].st # "rejected"].val

\* how many of the promises wait for an answer of the API
PendingCount(promises) ==
    Cardinality({i \in 1..Len(promises) : promises[i].st = "pending"})

IdleAnalysis == [pc |-> "idle", promises |-> <<>>]
IdleTranslate == [pc |-> "idle", mode |-> NoString, promises |-> <<>>]
IdleAudio == [pc |-> "idle", mode |-> NoString, language |-> NoString,
              single |-> FALSE, chunks |-> <<>>, promises |-> <<>>, completed |-> 0]

IdlePdf == [pc |-> "idle", promises |-> <<>>]

\* a handler has a continuation ready to run: the promise it awaits is settled.
\* Continuations are microtasks, which run before the next event is taken.
ContinuationReady(run) == run.pc = "await" /\ PromiseAllState(run.promises) # "pending"

MicrotaskPending ==
    ContinuationReady(analysisRun) \/ ContinuationReady(translateRun)
        \/ ContinuationReady(audioRun) \/ ContinuationReady(pdfRun)
RECURSIVE SumPending(_)
\* the requests waiting in a list of orphaned speech batches
SumPending(orphans) ==
    IF orphans = <<>> THEN 0 ELSE Head(orphans).pending + SumPending(Tail(orphans))

\* requests sent to the API and not yet answered
Outstanding ==
    PendingCount(analysisRun.promises) + PendingCount(translateRun.promises)
        + PendingCount(audioRun.promises) + orphanAnalysis + SumPending(orphanSpeech)

(***************************************************************************)
(* Answers of the API                                                      *)
(***************************************************************************)
\* documents the user types or pastes
DocumentInputs == {<<" ">>, <<"a">>}

\* the texts the model may answer an analysis request with: built from the
\* document's letter; an exhaustive summary longer than the TTS limit, a concise
\* summary that may come back empty, and key points as a markdown bullet or as a
\* lone marker
AnalysisAnswers(text, mode) ==
    LET d == Trim(text)[1]
    IN CASE mode = "Completo" -> {<<d, ".", " ", d, " ", d, ".">>}
         [] mode = "Resumido" -> {<<d, ".">>, <<>>}
         [] OTHER -> {<<"*", " ", d, ".">>, <<"*">>}

\* classes of e.message that handleAnalysis tells apart (lines 156-160)
RejectionMessages == {"api key", "token", "other"}

\* the base64 audio the speech model answers a request with
SpeechAnswer(request) ==
    CHOOSE data \in {Btoa(pcm) : pcm \in {SpokenPcm(request.text, request.voice)}} :
        TRUE

(***************************************************************************)
(* Messages shown to the user                                              *)
(***************************************************************************)
ErrEmptyDocument == "El documento no puede estar vacio."
ErrProcessing == "Ocurrio un error al procesar el documento."
ErrAuthentication == "Error de autenticacion."
ErrTooLarge == "El documento es demasiado grande."
ErrNoTextToTranslate == "No hay texto para traducir."
ErrTranslation == "No se pudo traducir el texto."
ErrNoTextForAudio(language) ==
    IF language = "es" THEN "No hay texto en espanol para generar el audio."
    ELSE "No hay texto en ingles para generar el audio."
ErrLameNotReady == "La libreria de codificacion de audio no esta lista."
ErrAudio == "No se pudo generar el audio para este texto."
ErrLameLoad == "No se pudo cargar la libreria de codificacion de audio."
WarnNoChunks == "No se pudo procesar el texto para generar audio."
ErrPdfInit == "La libreria PDF se cargo, pero no se inicializo correctamente."
ErrPdfLoad == "No se pudo cargar la libreria para leer PDFs."
ErrPdfExtract == "No se pudo extraer el texto del PDF."
ErrPdfRead == "Ocurrio un error al leer el archivo PDF."
ErrTxtRead == "Ocurrio un error al leer el archivo .txt."
ErrUnsupportedFile == "Por favor, sube un archivo .txt o .pdf."

(***************************************************************************)
(* Initial state: the component is mounted and its effect has run          *)
(***************************************************************************)
InitApp ==
    /\ documentText = <<>>
    /\ fileName = <<>>
    /\ inputMode = "paste"
    /\ analysisResults = NullResults
    /\ translatedResults = NullResults
    /\ activeTab = "Resumido"
    /\ displayedLanguage = "es"
    /\ audioSrc = Null
    /\ audioBlob = NoAudioBlob
    /\ isAnalyzing = FALSE
    /\ isGeneratingAudio = FALSE
    /\ isTranslating = FALSE
    /\ generationProgress = NoProgress
    /\ error = NoString
    /\ warning = NoString
    /\ isProcessed = FALSE
    /\ isParsingPdf = FALSE
    \* a fresh page: window.lamejs is not there, its script is appended and loading
    /\ lameScript = "loading"
    /\ isLameJsReady = FALSE
    /\ analysisRun = IdleAnalysis
    /\ translateRun = IdleTranslate
    /\ audioRun = IdleAudio
    /\ orphanAnalysis = 0
    /\ orphanSpeech = <<>>
    \* window.pdfjsLib is not there either: its script is loading
    /\ pdfScript = "loading"
    /\ isPdfJsReady = FALSE
    /\ textReads = <<>>
    /\ pdfRun = IdlePdf

InitSplitIdle ==
    /\ splitText = <<>>
    /\ splitMaxLength = 1
    /\ splitChunks = <<>>
    /\ splitDone = FALSE

Init == InitApp /\ InitSplitIdle

(***************************************************************************)
(* The script loader (lines 107-116)                                       *)
(***************************************************************************)
LameScriptLoads ==
    /\ ~MicrotaskPending
    /\ lameScript = "loading"
    /\ lameScript' = "loaded"
    /\ isLameJsReady' = TRUE
    /\ UNCHANGED <<documentText, fileName, inputMode, analysisResults,
                   translatedResults, activeTab, displayedLanguage, audioSrc,
                   audioBlob, isAnalyzing, isGeneratingAudio, isTranslating,
                   generationProgress, error, warning, isProcessed, isParsingPdf,
                   analysisRun, translateRun, audioRun, orphanAnalysis,
                   orphanSpeech, uploadVars, splitVars>>

LameScriptFails ==
    /\ ~MicrotaskPending
    /\ lameScript = "loading"
    /\ lameScript' = "failed"
    /\ error' = ErrLameLoad
    /\ UNCHANGED <<documentText, fileName, inputMode, analysisResults,
                   translatedResults, activeTab, displayedLanguage, audioSrc,
                   audioBlob, isAnalyzing, isGeneratingAudio, isTranslating,
                   generationProgress, warning, isProcessed, isParsingPdf,
                   isLameJsReady, analysisRun, translateRun, audioRun,
                   orphanAnalysis, orphanSpeech, uploadVars, splitVars>>

(***************************************************************************)
(* handleAnalysis (lines 119-167)                                          *)
(***************************************************************************)
\* generateTextAnalysis(text, mode) up to its await: the request is sent
generateTextAnalysis(text, mode) == PendingPromise([text |-> text, mode |-> mode])

\* the synchronous part of handleAnalysis(text), up to await Promise.all
handleAnalysis(text) ==
    IF Trim(text) = <<>>
    THEN /\ error' = ErrEmptyDocument
         /\ UNCHANGED <<isAnalyzing, warning, audioSrc, audioBlob, analysisResults,
                        translatedResults, analysisRun>>
    ELSE /\ isAnalyzing' = TRUE
         /\ error' = NoString
         /\ warning' = NoString
         /\ audioSrc' = Null
         /\ audioBlob' = NoAudioBlob
         /\ analysisResults' = NullResults
         /\ translatedResults' = NullResults
         /\ analysisRun' =
                [pc |-> "await",
                 promises |-> [i \in 1..Len(modesToGenerate) |->
                                  generateTextAnalysis(text, modesToGenerate[i])]]

\* (mutation: an analysis under way does not count as loading)
totalLoadingParsingOnly == isParsingPdf

\* totalLoading = isAnalyzing || isParsingPdf
totalLoading == isAnalyzing \/ isParsingPdf

\* the "Analizar Documento" button (lines 518-521)
AnalyzeClick ==
    /\ ~MicrotaskPending
    /\ ~isProcessed
    /\ ~(totalLoading \/ Trim(documentText) = <<>>)
    /\ Outstanding + Len(modesToGenerate) <= MaxOutstanding
    /\ handleAnalysis(documentText)
    /\ UNCHANGED <<documentText, fileName, inputMode, activeTab, displayedLanguage,
                   isGeneratingAudio, isTranslating, generationProgress,
                   isProcessed, isParsingPdf, isLameJsReady, lameScript,
                   translateRun, audioRun, orphanAnalysis, orphanSpeech, uploadVars, splitVars>>

\* the API answers the analysis request of analysisPromises[i] with a text
AnalysisResolves(i) ==
    /\ ~MicrotaskPending
    /\ analysisRun.pc = "await"
    /\ i \in 1..Len(analysisRun.promises)
    /\ analysisRun.promises[i].st = "pending"
    /\ \E answer \in AnalysisAnswers(analysisRun.promises[i].req.text,
                                     analysisRun.promises[i].req.mode) :
          analysisRun' = [analysisRun EXCEPT !.promises[i] =
                              FulfilledPromise(@.req, answer)]
    /\ UNCHANGED <<documentText, fileName, inputMode, analysisResults,
                   translatedResults, activeTab, displayedLanguage, audioSrc,
                   audioBlob, isAnalyzing, isGeneratingAudio, isTranslating,
                   generationProgress, error, warning, isProcessed, isParsingPdf,
                   isLameJsReady, lameScript, translateRun, audioRun,
                   orphanAnalysis, orphanSpeech, uploadVars, splitVars>>

\* the request of analysisPromises[i] fails, or its response holds no text
\* (part_000:34-36); generateTextAnalysis rethrows
AnalysisRejects(i) ==
    /\ ~MicrotaskPending
    /\ analysisRun.pc = "await"
    /\ i \in 1..Len(analysisRun.promises)
    /\ analysisRun.promises[i].st = "pending"
    /\ \E message \in RejectionMessages :
          analysisRun' = [analysisRun EXCEPT !.promises[i] =
                              RejectedPromise(@.req, message)]
    /\ UNCHANGED <<documentText, fileName, inputMode, analysisResults,
                   translatedResults, activeTab, displayedLanguage, audioSrc,
                   audioBlob, isAnalyzing, isGeneratingAudio, isTranslating,
                   generationProgress, error, warning, isProcessed, isParsingPdf,
                   isLameJsReady, lameScript, translateRun, audioRun,
                   orphanAnalysis, orphanSpeech, uploadVars, splitVars>>

\* (mutation: the key points are not stored)
NewAnalysisResultsPartial(results) ==
    [m \in ResponseMode |->
        CASE m = "Completo" -> results[1]
          [] m = "Resumido" -> results[2]
          [] OTHER -> Undefined]

\* (mutation: the first two results are stored under each other's mode)
NewAnalysisResultsSwapped(results) ==
    [m \in ResponseMode |->
        CASE m = "Completo" -> results[2]
          [] m = "Resumido" -> results[1]
          [] OTHER -> results[3]]

\* const newAnalysisResults = { Completo: results[0], Resumido: results[1],
\*                              PuntosClave: results[2] }
NewAnalysisResults(results) ==
    [m \in ResponseMode |->
        CASE m = "Completo" -> results[1]
          [] m = "Resumido" -> results[2]
          [] OTHER -> results[3]]

\* (mutation: the catch block shows no message)
AnalysisErrorMessageNone(message) == NoString

\* the message the catch block of handleAnalysis shows for e.message
AnalysisErrorMessage(message) ==
    IF message = "api key" THEN ErrAuthentication
    ELSE IF message = "token" THEN ErrTooLarge
    ELSE ErrProcessing

\* (mutation: the finally block is missing)
AnalysisFinallyMissing == isAnalyzing' = isAnalyzing

\* finally { setIsAnalyzing(false) }
AnalysisFinally == isAnalyzing' = FALSE

\* handleAnalysis after await Promise.all: the rest of the try block, or the
\* catch block, then the finally block
AnalysisContinues ==
    /\ ContinuationReady(analysisRun)
    /\ IF PromiseAllState(analysisRun.promises) = "fulfilled"
       THEN /\ analysisResults' =
                   NewAnalysisResults(PromiseAllValues(analysisRun.promises))
            /\ activeTab' = "Resumido"
            /\ displayedLanguage' = "es"
            /\ isProcessed' = TRUE
            /\ UNCHANGED <<error, orphanAnalysis>>
       ELSE /\ error' = AnalysisErrorMessage(PromiseAllReason(analysisRun.promises))
            /\ isProcessed' = FALSE
            /\ orphanAnalysis' = orphanAnalysis + PendingCount(analysisRun.promises)
            /\ UNCHANGED <<analysisResults, activeTab, displayedLanguage>>
    /\ AnalysisFinally
    /\ analysisRun' = IdleAnalysis
    /\ UNCHANGED <<documentText, fileName, inputMode, translatedResults, audioSrc,
                   audioBlob, isGeneratingAudio, isTranslating, generationProgress,
                   warning, isParsingPdf, isLameJsReady, lameScript, translateRun,
                   audioRun, orphanSpeech, uploadVars, splitVars>>

\* the API answers an analysis request whose handleAnalysis has ended in its
\* catch block: nothing of the application's state listens any more
OrphanAnalysisSettles ==
    /\ ~MicrotaskPending
    /\ orphanAnalysis > 0
    /\ orphanAnalysis' = orphanAnalysis - 1
    /\ UNCHANGED <<documentText, fileName, inputMode, analysisResults,
                   translatedResults, activeTab, displayedLanguage, audioSrc,
                   audioBlob, isAnalyzing, isGeneratingAudio, isTranslating,
                   generationProgress, error, warning, isProcessed, isParsingPdf,
                   isLameJsReady, lameScript, analysisRun, translateRun, audioRun,
                   orphanSpeech, uploadVars, splitVars>>
(***************************************************************************)
(* handleTranslate (lines 169-189) and the translate button (546-558)      *)
(***************************************************************************)
\* translateText(text) up to its await: the request is sent
translateText(text) == PendingPromise([text |-> text])

\* const spanishText = analysisResults?.[mode]
SpanishText(mode) == Lookup(analysisResults, mode)

\* (mutation: handleTranslate does not set isTranslating)
handleTranslateUnflagged(mode) ==
    LET spanishText == SpanishText(mode)
    IN IF ~Truthy(spanishText)
       THEN /\ error' = ErrNoTextToTranslate
            /\ UNCHANGED <<isTranslating, translateRun>>
       ELSE /\ isTranslating' = isTranslating
            /\ error' = NoString
            /\ translateRun' = [pc |-> "await", mode |-> mode,
                                promises |-> <<translateText(spanishText)>>]

\* the synchronous part of handleTranslate(mode), up to await translateText
handleTranslate(mode) ==
    LET spanishText == SpanishText(mode)
    IN IF ~Truthy(spanishText)
       THEN /\ error' = ErrNoTextToTranslate
            /\ UNCHANGED <<isTranslating, translateRun>>
       ELSE /\ isTranslating' = TRUE
            /\ error' = NoString
            /\ translateRun' = [pc |-> "await", mode |-> mode,
                                promises |-> <<translateText(spanishText)>>]

\* const isEnglishTranslated = !!translatedResults?.[activeTab]
isEnglishTranslated == Truthy(Lookup(translatedResults, activeTab))

\* the "Traducir a Ingles" / "Ver Original (ES)" button
TranslateClick ==
    /\ ~MicrotaskPending
    /\ isProcessed
    /\ ~isTranslating
    /\ (displayedLanguage = "es" /\ ~isEnglishTranslated
            /\ Truthy(SpanishText(activeTab)))
          => Outstanding + 1 <= MaxOutstanding
    /\ IF displayedLanguage = "es"
       THEN IF isEnglishTranslated
            THEN /\ displayedLanguage' = "en"
                 /\ UNCHANGED <<error, isTranslating, translateRun>>
            ELSE /\ handleTranslate(activeTab)
                 /\ UNCHANGED displayedLanguage
       ELSE /\ displayedLanguage' = "es"
            /\ UNCHANGED <<error, isTranslating, translateRun>>
    /\ UNCHANGED <<documentText, fileName, inputMode, analysisResults,
                   translatedResults, activeTab, audioSrc, audioBlob, isAnalyzing,
                   isGeneratingAudio, generationProgress, warning, isProcessed,
                   isParsingPdf, isLameJsReady, lameScript, analysisRun, audioRun,
                   orphanAnalysis, orphanSpeech, uploadVars, splitVars>>

\* the API answers the translation request with the English text
TranslateResolves ==
    /\ ~MicrotaskPending
    /\ translateRun.pc = "await"
    /\ translateRun.promises[1].st = "pending"
    /\ translateRun' = [translateRun EXCEPT !.promises[1] =
                            FulfilledPromise(@.req, TranslationOf(@.req.text))]
    /\ UNCHANGED <<documentText, fileName, inputMode, analysisResults,
                   translatedResults, activeTab, displayedLanguage, audioSrc,
                   audioBlob, isAnalyzing, isGeneratingAudio, isTranslating,
                   generationProgress, error, warning, isProcessed, isParsingPdf,
                   isLameJsReady, lameScript, analysisRun, audioRun,
                   orphanAnalysis, orphanSpeech, uploadVars, splitVars>>

\* the translation request fails, or its response holds no text (part_000:56-58)
TranslateRejects ==
    /\ ~MicrotaskPending
    /\ translateRun.pc = "await"
    /\ translateRun.promises[1].st = "pending"
    /\ translateRun' = [translateRun EXCEPT !.promises[1] =
                            RejectedPromise(@.req, "other")]
    /\ UNCHANGED <<documentText, fileName, inputMode, analysisResults,
                   translatedResults, activeTab, displayedLanguage, audioSrc,
                   audioBlob, isAnalyzing, isGeneratingAudio, isTranslating,
                   generationProgress, error, warning, isProcessed, isParsingPdf,
                   isLameJsReady, lameScript, analysisRun, audioRun,
                   orphanAnalysis, orphanSpeech, uploadVars, splitVars>>

\* (mutation: the translation is stored under the tab that is shown)
StoreTranslationUnderActiveTab(prev, mode, translatedText) ==
    SpreadWith(prev, activeTab, translatedText)

\* setTranslatedResults(prev => ({ ...prev, [mode]: translatedText }))
StoreTranslation(prev, mode, translatedText) == SpreadWith(prev, mode, translatedText)

\* handleTranslate after await translateText: the rest of the try block, or the
\* catch block, then the finally block
TranslateContinues ==
    /\ ContinuationReady(translateRun)
    /\ IF PromiseAllState(translateRun.promises) = "fulfilled"
       THEN /\ translatedResults' =
                   StoreTranslation(translatedResults, translateRun.mode,
                                    translateRun.promises[1].val)
            /\ displayedLanguage' = "en"
            /\ UNCHANGED error
       ELSE /\ error' = ErrTranslation
            /\ UNCHANGED <<translatedResults, displayedLanguage>>
    /\ isTranslating' = FALSE
    /\ translateRun' = IdleTranslate
    /\ UNCHANGED <<documentText, fileName, inputMode, analysisResults, activeTab,
                   audioSrc, audioBlob, isAnalyzing, isGeneratingAudio,
                   generationProgress, warning, isProcessed, isParsingPdf,
                   isLameJsReady, lameScript, analysisRun, audioRun,
                   orphanAnalysis, orphanSpeech, uploadVars, splitVars>>
(***************************************************************************)
(* handleGenerateAudio (lines 243-324) and createMp3Blob (lines 29-49)     *)
(***************************************************************************)
\* generateSpeech(text, language) up to its await: the request is sent, unless
\* nothing is left of the text after cleaning (part_000:92-95)
generateSpeech(text, language) ==
    LET cleanedText == cleanTextForSpeech(text)
        request == [text |-> cleanedText, voice |-> voiceName(language)]
    IN IF cleanedText = <<>>
       THEN RejectedPromise(request, "Text is empty after cleaning")
       ELSE PendingPromise(request)

\* the texts handleGenerateAudio passes to generateSpeech (lines 267-283)
SpeechTexts(textToSpeak) ==
    IF Len(textToSpeak) <= TTS_CHARACTER_LIMIT
    THEN <<textToSpeak>>
    ELSE splitTextIntoChunks(textToSpeak, TTS_CHARACTER_LIMIT)

\* (mutation: English audio is made from the Spanish text)
TextToSpeakSpanishOnly(mode, language) == Lookup(analysisResults, mode)

\* language === 'es' ? analysisResults?.[mode] : translatedResults?.[mode]
TextToSpeak(mode, language) ==
    IF language = "es" THEN Lookup(analysisResults, mode)
    ELSE Lookup(translatedResults, mode)

\* the synchronous part of handleGenerateAudio(mode, language), up to the await
handleGenerateAudio(mode, language) ==
    LET textToSpeak == TextToSpeak(mode, language)
    IN IF ~Truthy(textToSpeak)
       THEN /\ error' = ErrNoTextForAudio(language)
            /\ UNCHANGED <<isGeneratingAudio, warning, audioSrc, audioBlob,
                           generationProgress, audioRun>>
       ELSE IF ~isLameJsReady
       THEN /\ error' = ErrLameNotReady
            /\ UNCHANGED <<isGeneratingAudio, warning, audioSrc, audioBlob,
                           generationProgress, audioRun>>
       ELSE /\ error' = NoString
            /\ audioSrc' = Null
            /\ audioBlob' = NoAudioBlob
            /\ IF Len(textToSpeak) <= TTS_CHARACTER_LIMIT
               THEN /\ isGeneratingAudio' = TRUE
                    /\ warning' = NoString
                    /\ generationProgress' = ProgressCount(1, 1)
                    /\ audioRun' =
                          [pc |-> "await", mode |-> mode, language |-> language,
                           single |-> TRUE, chunks |-> <<textToSpeak>>,
                           promises |-> <<generateSpeech(textToSpeak, language)>>,
                           completed |-> 0]
               ELSE LET chunks == splitTextIntoChunks(textToSpeak, TTS_CHARACTER_LIMIT)
                    IN IF Len(chunks) = 0
                       THEN /\ warning' = WarnNoChunks
                            /\ isGeneratingAudio' = FALSE
                            /\ generationProgress' = NoProgress
                            /\ UNCHANGED audioRun
                       ELSE /\ isGeneratingAudio' = TRUE
                            /\ warning' = NoString
                            /\ generationProgress' = ProgressCount(0, Len(chunks))
                            /\ audioRun' =
                                  [pc |-> "await", mode |-> mode,
                                   language |-> language, single |-> FALSE,
                                   chunks |-> chunks,
                                   promises |-> [i \in 1..Len(chunks) |->
                                                   generateSpeech(chunks[i], language)],
                                   completed |-> 0]

\* the "Audio en Espanol" and "Audio en Ingles" buttons (lines 579-595)
GenerateAudioClick(language) ==
    /\ ~MicrotaskPending
    /\ isProcessed
    /\ IF language = "es"
       THEN ~(isGeneratingAudio \/ ~Truthy(Lookup(analysisResults, activeTab)))
       ELSE ~(isGeneratingAudio \/ ~isEnglishTranslated)
    /\ Outstanding + Len(SpeechTexts(TextToSpeak(activeTab, language))) <= MaxOutstanding
    /\ handleGenerateAudio(activeTab, language)
    /\ UNCHANGED <<documentText, fileName, inputMode, analysisResults,
                   translatedResults, activeTab, displayedLanguage, isAnalyzing,
                   isTranslating, isProcessed, isParsingPdf, isLameJsReady,
                   lameScript, analysisRun, translateRun, orphanAnalysis,
                   orphanSpeech, uploadVars, splitVars>>

\* the API answers the speech request of promises[i] with audio; on the chunked
\* path the then-callback counts it and shows the count (lines 284-288)
SpeechResolves(i) ==
    /\ ~MicrotaskPending
    /\ audioRun.pc = "await"
    /\ i \in 1..Len(audioRun.promises)
    /\ audioRun.promises[i].st = "pending"
    /\ \E request \in {audioRun.promises[i].req} :
       \E audio \in {SpeechAnswer(request)} :
          audioRun' = [audioRun EXCEPT
                          !.promises[i] = FulfilledPromise(@.req, audio),
                          !.completed = IF audioRun.single THEN @ ELSE @ + 1]
    /\ generationProgress' =
          IF audioRun.single THEN generationProgress
          ELSE ProgressCount(audioRun.completed + 1, Len(audioRun.chunks))
    /\ UNCHANGED <<documentText, fileName, inputMode, analysisResults,
                   translatedResults, activeTab, displayedLanguage, audioSrc,
                   audioBlob, isAnalyzing, isGeneratingAudio, isTranslating, error,
                   warning, isProcessed, isParsingPdf, isLameJsReady, lameScript,
                   analysisRun, translateRun, orphanAnalysis, orphanSpeech,
                   uploadVars, splitVars>>

\* the speech request of promises[i] fails, is blocked, or brings no audio
\* (part_000:118-126)
SpeechRejects(i) ==
    /\ ~MicrotaskPending
    /\ audioRun.pc = "await"
    /\ i \in 1..Len(audioRun.promises)
    /\ audioRun.promises[i].st = "pending"
    /\ audioRun' = [audioRun EXCEPT !.promises[i] = RejectedPromise(@.req, "other")]
    /\ UNCHANGED <<documentText, fileName, inputMode, analysisResults,
                   translatedResults, activeTab, displayedLanguage, audioSrc,
                   audioBlob, isAnalyzing, isGeneratingAudio, isTranslating,
                   generationProgress, error, warning, isProcessed, isParsingPdf,
                   isLameJsReady, lameScript, analysisRun, translateRun,
                   orphanAnalysis, orphanSpeech, uploadVars, splitVars>>

RECURSIVE Atob(_)
\* atob(b64) followed by the charCodeAt loop: the bytes a base64 string encodes
Atob(b64) ==
    IF Len(b64) < 4 THEN <<>>
    ELSE (IF b64[3] = Pad
          THEN <<b64[1] * 4 + b64[2] \div 16>>
          ELSE IF b64[4] = Pad
          THEN <<b64[1] * 4 + b64[2] \div 16, (b64[2] % 16) * 16 + b64[3] \div 4>>
          ELSE <<b64[1] * 4 + b64[2] \div 16, (b64[2] % 16) * 16 + b64[3] \div 4,
                 (b64[3] % 4) * 64 + b64[4]>>)
         \o Atob(SubSeq(b64, 5, Len(b64)))

RECURSIVE SumLengths(_)
\* arrayBuffers.reduce((acc, value) => acc + value.byteLength, 0)
SumLengths(arrayBuffers) ==
    IF arrayBuffers = <<>> THEN 0
    ELSE Len(Head(arrayBuffers)) + SumLengths(Tail(arrayBuffers))

\* (mutation: the offset is not advanced)
OffsetStuck(offset, buffer) == offset

\* offset += buffer.byteLength
AdvanceOffset(offset, buffer) == offset + Len(buffer)

RECURSIVE SetBuffers(_, _, _, _)
\* the loop of combinedPcm.set(new Uint8Array(buffer), offset), from buffer i on
SetBuffers(combinedPcm, arrayBuffers, i, offset) ==
    IF i > Len(arrayBuffers) THEN combinedPcm
    ELSE SetBuffers(SubSeq(combinedPcm, 1, offset) \o arrayBuffers[i]
                        \o SubSeq(combinedPcm, offset + Len(arrayBuffers[i]) + 1,
                                  Len(combinedPcm)),
                    arrayBuffers, i + 1, AdvanceOffset(offset, arrayBuffers[i]))

\* lines 304-310: a zeroed Uint8Array of the total length, filled buffer by buffer
CombinePcm(arrayBuffers) ==
    SetBuffers([k \in 1..SumLengths(arrayBuffers) |-> 0], arrayBuffers, 1, 0)

\* const sampleBlockSize = 1152
sampleBlockSize == 1152

\* new Int16Array(pcmData): little-endian signed 16-bit samples
Int16Array(pcmData) ==
    [j \in 1..(Len(pcmData) \div 2) |->
        LET v == pcmData[2 * j - 1] + 256 * pcmData[2 * j]
        IN IF v >= 32768 THEN v - 65536 ELSE v]

\* createMp3Blob(pcmData, sampleRate, numChannels).  The encoder is the lamejs
\* library: the data of the blob is written as the samples it encodes, block by
\* block.  Int16Array throws a RangeError on a buffer of odd length.
createMp3Blob(pcmData, sampleRate, numChannels) ==
    IF Len(pcmData) % 2 # 0
    THEN [threw |-> TRUE, blob |-> NoBlob]
    ELSE [threw |-> FALSE,
          blob |-> [type |-> "audio/mpeg",
                    data |-> Flatten(SliceFrom(Int16Array(pcmData), 0,
                                               sampleBlockSize))]]

\* URL.createObjectURL(blob)
createObjectURL(blob) == <<"blob:", blob.data>>
\* (mutation: the blob is always labelled Spanish)
AudioBlobLabelledSpanish(mp3Blob, language) == [blob |-> mp3Blob, lang |-> "es"]

\* setAudioBlob({ blob: mp3Blob, lang: language })
NewAudioBlob(mp3Blob, language) == [blob |-> mp3Blob, lang |-> language]

\* (mutation: the catch block clears the message)
AudioCatchClearsError == error' = NoString

\* (mutation: the catch block shows nothing)
AudioCatchSilent == UNCHANGED error

\* catch (e) { setError("No se pudo generar el audio para este texto.") }
AudioCatch == error' = ErrAudio

\* handleGenerateAudio after the await: the rest of the try block (decode,
\* concatenate, encode, publish) or the catch block, then the finally block.
\* Requests of a failed batch that are still waiting outlive the handler.
AudioContinues ==
    /\ ContinuationReady(audioRun)
    /\ IF PromiseAllState(audioRun.promises) = "fulfilled"
       THEN \E audioBase64Results \in {PromiseAllValues(audioRun.promises)} :
            \E arrayBuffers \in {[i \in 1..Len(audioBase64Results) |->
                                     Atob(audioBase64Results[i])]} :
            \E combinedPcm \in {CombinePcm(arrayBuffers)} :
            \E mp3 \in {createMp3Blob(combinedPcm, 24000, 1)} :
               IF mp3.threw
               THEN AudioCatch /\ UNCHANGED <<audioSrc, audioBlob>>
               ELSE /\ audioSrc' = createObjectURL(mp3.blob)
                    /\ audioBlob' = NewAudioBlob(mp3.blob, audioRun.language)
                    /\ UNCHANGED error
       ELSE AudioCatch /\ UNCHANGED <<audioSrc, audioBlob>>
    /\ orphanSpeech' =
          IF PendingCount(audioRun.promises) > 0
          THEN Append(orphanSpeech,
                      [completed |-> audioRun.completed,
                       total |-> Len(audioRun.chunks),
                       pending |-> PendingCount(audioRun.promises)])
          ELSE orphanSpeech
    /\ isGeneratingAudio' = FALSE
    /\ generationProgress' = NoProgress
    /\ audioRun' = IdleAudio
    /\ UNCHANGED <<documentText, fileName, inputMode, analysisResults,
                   translatedResults, activeTab, displayedLanguage, isAnalyzing,
                   isTranslating, warning, isProcessed, isParsingPdf,
                   isLameJsReady, lameScript, analysisRun, translateRun,
                   orphanAnalysis, uploadVars, splitVars>>

\* a list without its k-th element
RemoveAt(list, k) == SubSeq(list, 1, k - 1) \o SubSeq(list, k + 1, Len(list))

\* one request less is waiting in the k-th orphaned batch
OneSettled(orphans, k, completed) ==
    IF orphans[k].pending = 1 THEN RemoveAt(orphans, k)
    ELSE [orphans EXCEPT ![k].pending = @ - 1, ![k].completed = completed]

\* the API answers a speech request of a batch whose handler has ended in its
\* catch block: the then-callback still counts it and shows the count
OrphanSpeechResolves(k) ==
    /\ ~MicrotaskPending
    /\ k \in 1..Len(orphanSpeech)
    /\ generationProgress' =
          ProgressCount(orphanSpeech[k].completed + 1, orphanSpeech[k].total)
    /\ orphanSpeech' = OneSettled(orphanSpeech, k, orphanSpeech[k].completed + 1)
    /\ UNCHANGED <<documentText, fileName, inputMode, analysisResults,
                   translatedResults, activeTab, displayedLanguage, audioSrc,
                   audioBlob, isAnalyzing, isGeneratingAudio, isTranslating, error,
                   warning, isProcessed, isParsingPdf, isLameJsReady, lameScript,
                   analysisRun, translateRun, audioRun, orphanAnalysis, uploadVars, splitVars>>

\* a speech request of such a batch fails: nothing listens
OrphanSpeechRejects(k) ==
    /\ ~MicrotaskPending
    /\ k \in 1..Len(orphanSpeech)
    /\ orphanSpeech' = OneSettled(orphanSpeech, k, orphanSpeech[k].completed)
    /\ UNCHANGED <<documentText, fileName, inputMode, analysisResults,
                   translatedResults, activeTab, displayedLanguage, audioSrc,
                   audioBlob, isAnalyzing, isGeneratingAudio, isTranslating,
                   generationProgress, error, warning, isProcessed, isParsingPdf,
                   isLameJsReady, lameScript, analysisRun, translateRun, audioRun,
                   orphanAnalysis, uploadVars, splitVars>>

(***************************************************************************)
(* The remaining controls                                                  *)
(***************************************************************************)
\* a ResultTab button (lines 448-451)
ResultTabClick(mode) ==
    /\ ~MicrotaskPending
    /\ isProcessed
    /\ activeTab' = mode
    /\ audioSrc' = Null
    /\ audioBlob' = NoAudioBlob
    /\ warning' = NoString
    /\ displayedLanguage' = "es"
    /\ UNCHANGED <<documentText, fileName, inputMode, analysisResults,
                   translatedResults, isAnalyzing, isGeneratingAudio,
                   isTranslating, generationProgress, error, isProcessed,
                   isParsingPdf, isLameJsReady, lameScript, analysisRun,
                   translateRun, audioRun, orphanAnalysis, orphanSpeech, uploadVars, splitVars>>

\* handleReset (lines 359-374)
handleReset ==
    /\ isProcessed' = FALSE
    /\ documentText' = <<>>
    /\ analysisResults' = NullResults
    /\ translatedResults' = NullResults
    /\ audioSrc' = Null
    /\ audioBlob' = NoAudioBlob
    /\ error' = NoString
    /\ warning' = NoString
    /\ fileName' = <<>>
    /\ inputMode' = "paste"
    /\ activeTab' = "Resumido"

\* the "Analizar otro documento" button (line 531)
ResetClick ==
    /\ ~MicrotaskPending
    /\ isProcessed
    /\ handleReset
    /\ UNCHANGED <<displayedLanguage, isAnalyzing, isGeneratingAudio,
                   isTranslating, generationProgress, isParsingPdf, isLameJsReady,
                   lameScript, analysisRun, translateRun, audioRun, orphanAnalysis,
                   orphanSpeech, uploadVars, splitVars>>

\* an InputModeTab button (lines 435-446)
InputModeTabClick(mode) ==
    /\ ~MicrotaskPending
    /\ ~isProcessed
    /\ inputMode' = mode
    /\ UNCHANGED <<documentText, fileName, analysisResults, translatedResults,
                   activeTab, displayedLanguage, audioSrc, audioBlob, isAnalyzing,
                   isGeneratingAudio, isTranslating, generationProgress, error,
                   warning, isProcessed, isParsingPdf, isLameJsReady, lameScript,
                   analysisRun, translateRun, audioRun, orphanAnalysis,
                   orphanSpeech, uploadVars, splitVars>>

\* the textarea's onChange (lines 486-492)
TextareaChange(value) ==
    /\ ~MicrotaskPending
    /\ ~isProcessed
    /\ inputMode = "paste"
    /\ ~totalLoading
    /\ documentText' = value
    /\ fileName' = <<>>
    /\ UNCHANGED <<inputMode, analysisResults, translatedResults, activeTab,
                   displayedLanguage, audioSrc, audioBlob, isAnalyzing,
                   isGeneratingAudio, isTranslating, generationProgress, error,
                   warning, isProcessed, isParsingPdf, isLameJsReady, lameScript,
                   analysisRun, translateRun, audioRun, orphanAnalysis,
                   orphanSpeech, uploadVars, splitVars>>

(***************************************************************************)
(* The application: events of the user and of the network, and the         *)
(* continuations of the suspended handlers                                 *)
(***************************************************************************)
Next ==
    \/ LameScriptLoads
    \/ LameScriptFails
    \/ \E mode \in {"paste", "upload"} : InputModeTabClick(mode)
    \/ \E value \in DocumentInputs \cup {<<>>} : TextareaChange(value)
    \/ AnalyzeClick
    \/ \E i \in 1..3 : AnalysisResolves(i)
    \/ \E i \in 1..3 : AnalysisRejects(i)
    \/ AnalysisContinues
    \/ OrphanAnalysisSettles
    \/ ResetClick
    \/ \E mode \in ResponseMode : ResultTabClick(mode)
    \/ TranslateClick
    \/ TranslateResolves
    \/ TranslateRejects
    \/ TranslateContinues
    \/ \E language \in Languages : GenerateAudioClick(language)
    \/ \E i \in 1..Len(audioRun.promises) : SpeechResolves(i)
    \/ \E i \in 1..Len(audioRun.promises) : SpeechRejects(i)
    \/ AudioContinues
    \/ \E k \in 1..Len(orphanSpeech) : OrphanSpeechResolves(k)
    \/ \E k \in 1..Len(orphanSpeech) : OrphanSpeechRejects(k)

Spec == Init /\ [][Next]_vars
(***************************************************************************)
(* The handler called as a function, with any arguments, whatever the      *)
(* buttons allow (no generation in progress)                               *)
(***************************************************************************)
CallGenerateAudio(mode, language) ==
    /\ ~MicrotaskPending
    /\ audioRun.pc = "idle"
    /\ Outstanding + Len(SpeechTexts(TextToSpeak(mode, language))) <= MaxOutstanding
    /\ handleGenerateAudio(mode, language)
    /\ UNCHANGED <<documentText, fileName, inputMode, analysisResults,
                   translatedResults, activeTab, displayedLanguage, isAnalyzing,
                   isTranslating, isProcessed, isParsingPdf, isLameJsReady,
                   lameScript, analysisRun, translateRun, orphanAnalysis,
                   orphanSpeech, uploadVars, splitVars>>

NextDirect ==
    \/ Next
    \/ \E mode \in ResponseMode, language \in Languages :
          CallGenerateAudio(mode, language)

SpecDirect == Init /\ [][NextDirect]_vars

(***************************************************************************)
(* File upload: the pdf.js script (lines 87-105), handleFileChange         *)
(* (lines 400-433) and extractTextFromPdf (lines 376-398)                  *)
(***************************************************************************)
\* the files the user may choose: a text file, a PDF of one page, an image
TextFile == [type |-> "text/plain", name |-> <<"t">>, content |-> <<<<"a">>>>]
PdfFile == [type |-> "application/pdf", name |-> <<"p">>, content |-> <<<<"a">>>>]
ImageFile == [type |-> "image/png", name |-> <<"i">>, content |-> <<>>]
Files == {TextFile, PdfFile, ImageFile}

\* reader.readAsText(file): the text of the file
ReadAsText(file) == Flatten(file.content)

\* fullText += pageText + '\n\n', page by page
PdfFullText(pages) ==
    Flatten([i \in 1..Len(pages) |-> pages[i] \o <<"\n", "\n">>])

\* script.onload of pdf.js: the library is there, or it did not initialise
PdfScriptLoads ==
    /\ ~MicrotaskPending
    /\ pdfScript = "loading"
    /\ pdfScript' = "loaded"
    /\ \/ isPdfJsReady' = TRUE /\ UNCHANGED error
       \/ error' = ErrPdfInit /\ UNCHANGED isPdfJsReady
    /\ UNCHANGED <<documentText, fileName, inputMode, analysisResults,
                  translatedResults, activeTab, displayedLanguage, audioSrc,
                  audioBlob, isAnalyzing, isGeneratingAudio, isTranslating,
                  generationProgress, warning, isProcessed, isParsingPdf,
                  isLameJsReady, lameScript, analysisRun, translateRun,
                  audioRun, orphanAnalysis, orphanSpeech, textReads, pdfRun,
                  splitVars>>

\* script.onerror of pdf.js
PdfScriptFails ==
    /\ ~MicrotaskPending
    /\ pdfScript = "loading"
    /\ pdfScript' = "failed"
    /\ error' = ErrPdfLoad
    /\ UNCHANGED <<documentText, fileName, inputMode, analysisResults,
                  translatedResults, activeTab, displayedLanguage, audioSrc,
                  audioBlob, isAnalyzing, isGeneratingAudio, isTranslating,
                  generationProgress, warning, isProcessed, isParsingPdf,
                  isLameJsReady, lameScript, analysisRun, translateRun,
                  audioRun, orphanAnalysis, orphanSpeech, isPdfJsReady,
                  textReads, pdfRun, splitVars>>

\* extractTextFromPdf(file) up to its await: a FileReader reads the file
extractTextFromPdf(file) == PendingPromise(file)

\* catch (err) { setError(err); setFileName('') }
PdfCatch == error' = pdfRun.promises[1].val /\ fileName' = <<>>

\* handleFileChange(event) for the file chosen, up to its first await
handleFileChange(file) ==
    /\ warning' = NoString
    /\ documentText' = <<>>
    /\ IF file.type = "text/plain"
       THEN /\ error' = NoString
            /\ fileName' = <<>>
            /\ textReads' = Append(textReads, file)
            /\ UNCHANGED <<isParsingPdf, pdfRun>>
       ELSE IF file.type = "application/pdf"
       THEN /\ error' = NoString
            /\ isParsingPdf' = TRUE
            /\ fileName' = file.name
            /\ pdfRun' = [pc |-> "await", promises |-> <<extractTextFromPdf(file)>>]
            /\ UNCHANGED textReads
       ELSE /\ error' = ErrUnsupportedFile
            /\ fileName' = <<>>
            /\ UNCHANGED <<isParsingPdf, textReads, pdfRun>>

\* the file input's onChange (line 511): it is shown in the upload tab of the
\* input view once pdf.js is ready, and disabled while loading
FileChange(file) ==
    /\ ~MicrotaskPending
    /\ ~isProcessed
    /\ inputMode = "upload"
    /\ isPdfJsReady
    /\ ~totalLoading
    /\ file.type = "text/plain" => Len(textReads) < MaxTextReads
    /\ handleFileChange(file)
    /\ UNCHANGED <<inputMode, analysisResults, translatedResults, activeTab,
                  displayedLanguage, audioSrc, audioBlob, isAnalyzing,
                  isGeneratingAudio, isTranslating, generationProgress,
                  isProcessed, isLameJsReady, lameScript, analysisRun,
                  translateRun, audioRun, orphanAnalysis, orphanSpeech,
                  isPdfJsReady, pdfScript, splitVars>>

\* reader.onload of the k-th text file being read (lines 411-414)
TextReadLoads(k) ==
    /\ ~MicrotaskPending
    /\ k \in 1..Len(textReads)
    /\ documentText' = ReadAsText(textReads[k])
    /\ fileName' = textReads[k].name
    /\ textReads' = RemoveAt(textReads, k)
    /\ UNCHANGED <<inputMode, analysisResults, translatedResults, activeTab,
                  displayedLanguage, audioSrc, audioBlob, isAnalyzing,
                  isGeneratingAudio, isTranslating, generationProgress, error,
                  warning, isProcessed, isParsingPdf, isLameJsReady,
                  lameScript, analysisRun, translateRun, audioRun,
                  orphanAnalysis, orphanSpeech, isPdfJsReady, pdfScript,
                  pdfRun, splitVars>>

\* reader.onerror of the k-th text file being read (line 415)
TextReadFails(k) ==
    /\ ~MicrotaskPending
    /\ k \in 1..Len(textReads)
    /\ error' = ErrTxtRead
    /\ textReads' = RemoveAt(textReads, k)
    /\ UNCHANGED <<documentText, fileName, inputMode, analysisResults,
                  translatedResults, activeTab, displayedLanguage, audioSrc,
                  audioBlob, isAnalyzing, isGeneratingAudio, isTranslating,
                  generationProgress, warning, isProcessed, isParsingPdf,
                  isLameJsReady, lameScript, analysisRun, translateRun,
                  audioRun, orphanAnalysis, orphanSpeech, isPdfJsReady,
                  pdfScript, pdfRun, splitVars>>

\* pdf.js has read every page: resolve(fullText)
PdfResolves ==
    /\ ~MicrotaskPending
    /\ pdfRun.pc = "await"
    /\ pdfRun.promises[1].st = "pending"
    /\ pdfRun' = [pdfRun EXCEPT !.promises[1] =
                     FulfilledPromise(@.req, PdfFullText(@.req.content))]
    /\ UNCHANGED <<documentText, fileName, inputMode, analysisResults,
                  translatedResults, activeTab, displayedLanguage, audioSrc,
                  audioBlob, isAnalyzing, isGeneratingAudio, isTranslating,
                  generationProgress, error, warning, isProcessed,
                  isParsingPdf, isLameJsReady, lameScript, analysisRun,
                  translateRun, audioRun, orphanAnalysis, orphanSpeech,
                  isPdfJsReady, pdfScript, textReads, splitVars>>

\* the file cannot be read, or pdf.js throws: reject(message) (lines 392, 395)
PdfRejects ==
    /\ ~MicrotaskPending
    /\ pdfRun.pc = "await"
    /\ pdfRun.promises[1].st = "pending"
    /\ \E message \in {ErrPdfExtract, ErrPdfRead} :
          pdfRun' = [pdfRun EXCEPT !.promises[1] = RejectedPromise(@.req, message)]
    /\ UNCHANGED <<documentText, fileName, inputMode, analysisResults,
                  translatedResults, activeTab, displayedLanguage, audioSrc,
                  audioBlob, isAnalyzing, isGeneratingAudio, isTranslating,
                  generationProgress, error, warning, isProcessed,
                  isParsingPdf, isLameJsReady, lameScript, analysisRun,
                  translateRun, audioRun, orphanAnalysis, orphanSpeech,
                  isPdfJsReady, pdfScript, textReads, splitVars>>

\* handleFileChange after await extractTextFromPdf(file) (lines 422-428)
PdfContinues ==
    /\ ContinuationReady(pdfRun)
    /\ IF pdfRun.promises[1].st = "fulfilled"
       THEN documentText' = pdfRun.promises[1].val /\ UNCHANGED <<error, fileName>>
       ELSE PdfCatch /\ UNCHANGED documentText
    /\ isParsingPdf' = FALSE
    /\ pdfRun' = IdlePdf
    /\ UNCHANGED <<inputMode, analysisResults, translatedResults, activeTab,
                  displayedLanguage, audioSrc, audioBlob, isAnalyzing,
                  isGeneratingAudio, isTranslating, generationProgress,
                  warning, isProcessed, isLameJsReady, lameScript,
                  analysisRun, translateRun, audioRun, orphanAnalysis,
                  orphanSpeech, isPdfJsReady, pdfScript, textReads, splitVars>>

\* the input view before an analysis is started: the scripts load, the user
\* switches between pasting and uploading, types, and chooses files
NextUpload ==
    \/ LameScriptLoads
    \/ LameScriptFails
    \/ PdfScriptLoads
    \/ PdfScriptFails
    \/ \E mode \in {"paste", "upload"} : InputModeTabClick(mode)
    \/ \E value \in DocumentInputs \cup {<<>>} : TextareaChange(value)
    \/ \E file \in Files : FileChange(file)
    \/ \E k \in 1..Len(textReads) : TextReadLoads(k)
    \/ \E k \in 1..Len(textReads) : TextReadFails(k)
    \/ PdfResolves
    \/ PdfRejects
    \/ PdfContinues

SpecUpload == Init /\ [][NextUpload]_vars

(***************************************************************************)
(* splitTextIntoChunks on its own: every text up to MaxTextLen over the    *)
(* alphabet, every maxLength up to MaxMaxLength                            *)
(***************************************************************************)
SplitAlphabet == {"a", " ", "."}

SplitTexts == UNION {[1..n -> SplitAlphabet] : n \in 0..MaxTextLen}

InitSplit ==
    /\ InitApp
    /\ splitText \in SplitTexts
    /\ splitMaxLength \in 1..MaxMaxLength
    /\ splitChunks = <<>>
    /\ splitDone = FALSE

ApplySplit ==
    /\ ~splitDone
    /\ splitChunks' = splitTextIntoChunks(splitText, splitMaxLength)
    /\ splitDone' = TRUE
    /\ UNCHANGED <<splitText, splitMaxLength, appVars, uploadVars>>

SpecSplit == InitSplit /\ [][ApplySplit]_vars
(***************************************************************************)
(* Properties                                                              *)
(***************************************************************************)
\* the characters of a text that are not white space, in order
NonSpace(text) == SelectSeq(text, LAMBDA c : ~IsSpace(c))

\* the bytes of a sequence of 16-bit samples, little-endian
BytesOfSamples(samples) ==
    Flatten([j \in 1..Len(samples) |->
                <<(samples[j] + 65536) % 256, ((samples[j] + 65536) \div 256) % 256>>])

\* steps: a suspended handler resumes with Promise.all fulfilled / rejected
Resumes(run, state) ==
    run.pc = "await" /\ PromiseAllState(run.promises) = state

\* C1: when handleGenerateAudio has awaited its speech requests, the PCM that
\* is encoded and published is the audio of chunk 1, chunk 2, ..., chunk n in
\* chunk order, byte for byte, and as long as the audio of the chunks together,
\* whatever the order in which the requests were answered.
C1_CombinedPcmInChunkOrder ==
    [][(Resumes(audioRun, "fulfilled") /\ audioRun'.pc = "idle")
        => LET audioOfChunk == [i \in 1..Len(audioRun.chunks) |->
                                  SpokenPcm(cleanTextForSpeech(audioRun.chunks[i]),
                                            voiceName(audioRun.language))]
           IN /\ BytesOfSamples(audioBlob'.blob.data) = Flatten(audioOfChunk)
              /\ 2 * Len(audioBlob'.blob.data) = SumLengths(audioOfChunk)]_vars

\* audio of more samples than one request may carry characters is published:
\* it was put together from several chunks
C1_Witness ==
    /\ audioBlob # NoAudioBlob
    /\ Len(audioBlob.blob.data) > TTS_CHARACTER_LIMIT

\* C2: the chunks splitTextIntoChunks returns, joined in order, hold every
\* character of the text that is not white space, once and in the order of the
\* text.
C2_SplitKeepsEveryCharacter ==
    splitDone => NonSpace(Flatten(splitChunks)) = NonSpace(splitText)

\* C3: no chunk splitTextIntoChunks(text, maxLength) returns is longer than
\* maxLength, and no text handleGenerateAudio passes to generateSpeech is
\* longer than the TTS character limit.
C3_ChunksWithinMaxLength ==
    splitDone =>
        /\ \A i \in 1..Len(splitChunks) : Len(splitChunks[i]) <= splitMaxLength
        /\ \A i \in 1..Len(SpeechTexts(splitText)) :
              Len(SpeechTexts(splitText)[i]) <= TTS_CHARACTER_LIMIT

\* sentences were joined into a chunk that fills maxLength, and the text is
\* longer than the TTS limit, so that it is passed on in chunks
C3_Witness ==
    /\ splitDone
    /\ Len(MatchSentences(splitText)) >= 2
    /\ \E i \in 1..Len(splitChunks) :
          /\ Len(splitChunks[i]) = splitMaxLength
          /\ \E k \in 1..Len(splitChunks[i]) : splitChunks[i][k] = " "
    /\ Len(splitText) > TTS_CHARACTER_LIMIT

\* C4 as stated: at most one request to the API is outstanding.
C4_AtMostOneOutstanding == Outstanding <= 1

\* the number of requests a frame's promises wait for grows in this step
Issues(run, runNext) == PendingCount(runNext.promises) > PendingCount(run.promises)

\* C4 as amended: requests are sent in parallel batches.  A step sends requests
\* only by starting a handler that was not awaiting, and sends all requests of
\* that handler at once: three for an analysis (one per mode), one for a
\* translation, at most one per chunk for audio; no request follows later.
C4_RequestsSentInBatches ==
    [][/\ Issues(analysisRun, analysisRun')
            => /\ analysisRun.pc = "idle"
               /\ PendingCount(analysisRun'.promises) = 3
               /\ \A m \in ResponseMode : \E i \in 1..3 :
                     analysisRun'.promises[i].req.mode = m
       /\ Issues(translateRun, translateRun')
            => /\ translateRun.pc = "idle"
               /\ PendingCount(translateRun'.promises) = 1
       /\ Issues(audioRun, audioRun')
            => /\ audioRun.pc = "idle"
               /\ PendingCount(audioRun'.promises) <= Len(audioRun'.chunks)
       /\ Outstanding' > Outstanding
            => \/ Issues(analysisRun, analysisRun')
               \/ Issues(translateRun, translateRun')
               \/ Issues(audioRun, audioRun')]_vars

\* the two requests of a chunked generation and a translation request are
\* outstanding at the same time
C4_Witness ==
    /\ PendingCount(audioRun.promises) = 2
    /\ PendingCount(translateRun.promises) = 1

\* C5: when a request of handleAnalysis, handleTranslate or handleGenerateAudio
\* rejects, the handler ends with a message in error and its busy flag false.
C5_RejectionShowsError ==
    [][/\ Resumes(analysisRun, "rejected") => (error' # NoString /\ ~isAnalyzing')
       /\ Resumes(translateRun, "rejected") => (error' # NoString /\ ~isTranslating')
       /\ Resumes(audioRun, "rejected")
            => (error' # NoString /\ ~isGeneratingAudio')]_vars

\* a chunked generation has ended in its catch block on the rejection of one
\* request while the other request was still waiting
C5_Witness ==
    /\ error = ErrAudio
    /\ ~isGeneratingAudio
    /\ orphanSpeech # <<>>

\* C6: a successful handleAnalysis stores three results, the one of each mode
\* being the answer to the request that was sent for that mode, and shows the
\* results view on the tab Resumido in Spanish.
C6_AnalysisStoresAnswerOfEachMode ==
    [][Resumes(analysisRun, "fulfilled")
        => /\ \A i \in 1..Len(analysisRun.promises) :
                 analysisResults'[analysisRun.promises[i].req.mode]
                     = analysisRun.promises[i].val
           /\ \A m \in ResponseMode : analysisResults'[m] \notin {Null, Undefined}
           /\ isProcessed'
           /\ activeTab' = "Resumido"
           /\ displayedLanguage' = "es"]_vars

\* the results view shows three different answers
C6_Witness ==
    /\ isProcessed
    /\ ~isAnalyzing
    /\ analysisResults # NullResults
    /\ Cardinality({analysisResults[m] : m \in ResponseMode}) = 3

\* C7: handleTranslate(mode) sends analysisResults[mode] to be translated; when
\* the translation arrives it stores it under translatedResults[mode] and shows
\* English, and changes neither analysisResults, nor the translations of the
\* other modes, nor activeTab, nor the audio state; when it fails, or finds no
\* text to translate, translatedResults and displayedLanguage stay as they are.
C7_TranslateStoresUnderItsMode ==
    [][/\ (translateRun.pc = "idle" /\ translateRun'.pc = "await")
            => translateRun'.promises[1].req.text
                  = Lookup(analysisResults, translateRun'.mode)
       /\ Resumes(translateRun, "fulfilled")
            => /\ Lookup(translatedResults', translateRun.mode)
                     = translateRun.promises[1].val
               /\ translateRun.promises[1].val
                     = TranslationOf(translateRun.promises[1].req.text)
               /\ \A m \in ResponseMode \ {translateRun.mode} :
                     Lookup(translatedResults', m) = Lookup(translatedResults, m)
               /\ displayedLanguage' = "en"
               /\ UNCHANGED <<analysisResults, activeTab, audioSrc, audioBlob,
                              isGeneratingAudio, generationProgress, audioRun>>
       /\ (Resumes(translateRun, "rejected")
             \/ (error' = ErrNoTextToTranslate /\ error # ErrNoTextToTranslate))
            => UNCHANGED <<translatedResults, displayedLanguage>>]_vars

\* a second mode has been translated next to a first
C7_Witness ==
    /\ displayedLanguage = "en"
    /\ ~isTranslating
    /\ Cardinality({m \in ResponseMode : Truthy(Lookup(translatedResults, m))}) >= 2
    /\ Lookup(translatedResults, activeTab)
          = TranslationOf(Lookup(analysisResults, activeTab))

\* C8: handleGenerateAudio(mode, language) reads analysisResults[mode] for
\* Spanish and translatedResults[mode] for English.  When that text is missing
\* or empty, or lamejs is not ready, it shows an error, sends no request and
\* leaves audioSrc, audioBlob and isGeneratingAudio as they are; otherwise it
\* passes that text, whole or in chunks, to generateSpeech with the language's
\* voice.
C8_GenerateAudioGuards ==
    [][\A mode \in ResponseMode, language \in Languages :
          (CallGenerateAudio(mode, language)
              \/ (mode = activeTab /\ GenerateAudioClick(language)))
          => LET text == IF language = "es" THEN Lookup(analysisResults, mode)
                         ELSE Lookup(translatedResults, mode)
             IN IF text \in {Null, Undefined, <<>>} \/ ~isLameJsReady
                THEN /\ error' # NoString
                     /\ Outstanding' = Outstanding
                     /\ UNCHANGED <<audioSrc, audioBlob, isGeneratingAudio, audioRun>>
                ELSE /\ audioRun'.pc = "await"
                     /\ audioRun'.chunks = SpeechTexts(text)
                     /\ \A i \in 1..Len(audioRun'.promises) :
                           audioRun'.promises[i].req
                              = [text |-> cleanTextForSpeech(audioRun'.chunks[i]),
                                 voice |-> IF language = "es" THEN "Kore"
                                           ELSE "Zephyr"]]_vars

\* English audio was asked for a mode that has no translation, with lamejs ready
C8_Witness ==
    /\ error = ErrNoTextForAudio("en")
    /\ isLameJsReady
    /\ audioRun.pc = "idle"
    /\ audioSrc = Null

\* C9: audioSrc is set exactly when audioBlob is set; they are set by a
\* generation that succeeded, audioSrc being the URL of audioBlob.blob and
\* audioBlob.lang the language that generation was asked for.
C9_AudioSrcWithItsBlob ==
    [][/\ (audioSrc = Null) <=> (audioBlob = NoAudioBlob)
       /\ (audioSrc' = Null) <=> (audioBlob' = NoAudioBlob)
       /\ (audioBlob' # NoAudioBlob /\ audioBlob' # audioBlob)
            => /\ Resumes(audioRun, "fulfilled")
               /\ audioBlob'.lang = audioRun.language
               /\ audioSrc' = createObjectURL(audioBlob'.blob)]_vars

\* English audio is offered
C9_Witness ==
    /\ audioSrc # Null
    /\ audioBlob.lang = "en"
    /\ ~isGeneratingAudio

(***************************************************************************)
(* Liveness: every request that is outstanding is answered, by a response  *)
(* or an error, and continuations that are ready run                        *)
(***************************************************************************)
Fairness ==
    /\ SF_vars(\E i \in 1..Len(analysisRun.promises) :
                  AnalysisResolves(i) \/ AnalysisRejects(i))
    /\ SF_vars(TranslateResolves \/ TranslateRejects)
    /\ SF_vars(\E i \in 1..Len(audioRun.promises) :
                  SpeechResolves(i) \/ SpeechRejects(i))
    /\ WF_vars(AnalysisContinues)
    /\ WF_vars(TranslateContinues)
    /\ WF_vars(AudioContinues)

LiveSpec == Spec /\ Fairness

\* the step that ends a started handler leaves its busy flag false, and its
\* result stored or a message in error
HandlerEndsSettled ==
    /\ (analysisRun.pc = "await" /\ analysisRun'.pc = "idle")
          => (/\ ~isAnalyzing'
              /\ (analysisResults' # NullResults \/ error' # NoString))
    /\ (translateRun.pc = "await" /\ translateRun'.pc = "idle")
          => (/\ ~isTranslating'
              /\ (Lookup(translatedResults', translateRun.mode) \notin {Null, Undefined}
                    \/ error' # NoString))
    /\ (audioRun.pc = "await" /\ audioRun'.pc = "idle")
          => (/\ ~isGeneratingAudio'
              /\ (audioSrc' # Null \/ error' # NoString))

\* C10: every analysis, translation and audio generation that has started
\* ends, provided every request is answered, and where it ends its busy flag is
\* false and its result is stored or error holds a message.
C10_StartedWorkEnds ==
    /\ [][HandlerEndsSettled]_vars
    /\ (analysisRun.pc = "await") ~> (analysisRun.pc = "idle" /\ ~isAnalyzing)
    /\ (translateRun.pc = "await") ~> (translateRun.pc = "idle" /\ ~isTranslating)
    /\ (audioRun.pc = "await") ~> (audioRun.pc = "idle" /\ ~isGeneratingAudio)

\* an audio generation has ended with its audio published while a translation
\* that started during it still waits for its answer
C10_Witness ==
    /\ audioRun.pc = "idle"
    /\ ~isGeneratingAudio
    /\ audioSrc # Null
    /\ translateRun.pc = "await"
    /\ isTranslating

\* a step of one of the three buttons that call the API
UserAction ==
    AnalyzeClick \/ TranslateClick \/ \E language \in Languages : GenerateAudioClick(language)

\* C11: requests are sent only by a step of the analyze, translate or audio
\* button; such a step sends one request for each mode, one translation request,
\* or one request for each chunk; and the continuation that handles a rejection
\* ends its handler without sending anything.
C11_NoRetry ==
    [][/\ Outstanding' > Outstanding => UserAction
       /\ Issues(analysisRun, analysisRun')
            => /\ Len(analysisRun'.promises) = Cardinality(ResponseMode)
               /\ \A i, j \in 1..Len(analysisRun'.promises) :
                     i # j => analysisRun'.promises[i].req.mode
                                 # analysisRun'.promises[j].req.mode
       /\ Issues(translateRun, translateRun') => Len(translateRun'.promises) = 1
       /\ Issues(audioRun, audioRun')
            => /\ Len(audioRun'.promises) = Len(audioRun'.chunks)
               /\ \A i \in 1..Len(audioRun'.promises) :
                     audioRun'.promises[i].req.text
                        = cleanTextForSpeech(audioRun'.chunks[i])
       /\ (Resumes(analysisRun, "rejected") \/ Resumes(translateRun, "rejected")
              \/ Resumes(audioRun, "rejected"))
            => /\ Outstanding' = Outstanding
               /\ Resumes(analysisRun, "rejected") => analysisRun'.pc = "idle"
               /\ Resumes(translateRun, "rejected") => translateRun'.pc = "idle"
               /\ Resumes(audioRun, "rejected") => audioRun'.pc = "idle"]_vars

\* an analysis has ended on a rejection and nothing is outstanding
C11_Witness ==
    /\ error = ErrProcessing
    /\ ~isAnalyzing
    /\ analysisRun.pc = "idle"
    /\ analysisResults = NullResults
    /\ Outstanding = 0

\* C12: handleFileChange for a file that is neither text/plain nor
\* application/pdf shows an error, starts no read and no parse, and leaves
\* documentText and fileName empty; and when the extraction of a PDF fails,
\* handleFileChange ends with error set, fileName and documentText empty, and
\* isParsingPdf false.
C12_FileChangeContract ==
    [][/\ \A file \in Files :
             (file.type \notin {"text/plain", "application/pdf"} /\ FileChange(file))
                => /\ error' # NoString
                   /\ ~isParsingPdf'
                   /\ UNCHANGED <<textReads, pdfRun>>
                   /\ documentText' = <<>>
                   /\ fileName' = <<>>
       /\ Resumes(pdfRun, "rejected")
             => /\ error' # NoString
                /\ fileName' = <<>>
                /\ documentText' = <<>>
                /\ ~isParsingPdf']_vars

\* C13: while handleAnalysis waits, and when it resumes because one of its
\* three requests was rejected, no result is stored: analysisResults is null
\* whatever the other requests answered, isProcessed is false and error holds a
\* message; answers that arrive later change nothing of it.
C13_AnalysisAllOrNothing ==
    [][/\ analysisRun.pc = "await" => (analysisResults = NullResults /\ ~isProcessed)
       /\ Resumes(analysisRun, "rejected")
            => /\ analysisResults' = NullResults
               /\ ~isProcessed'
               /\ error' # NoString
       /\ orphanAnalysis' < orphanAnalysis
            => UNCHANGED <<analysisResults, isProcessed, error>>]_vars

\* an analysis has ended on a rejection after one of its requests had been
\* answered with a text; its third request still waits
C13_Witness ==
    /\ error = ErrAuthentication
    /\ ~isAnalyzing
    /\ ~isProcessed
    /\ analysisResults = NullResults
    /\ orphanAnalysis = 1

\* C14: while handleGenerateAudio waits no audio is offered; when it resumes
\* because the request of a chunk was rejected it ends with audioSrc and
\* audioBlob null and a message in error; audio is published only by a
\* generation all of whose requests were answered with audio; and answers that
\* arrive for a generation that has ended publish nothing.
C14_AudioAllOrNothing ==
    [][/\ audioRun.pc = "await" => (audioSrc = Null /\ audioBlob = NoAudioBlob)
       /\ Resumes(audioRun, "rejected")
            => /\ audioSrc' = Null
               /\ audioBlob' = NoAudioBlob
               /\ error' # NoString
       /\ (audioSrc' # Null /\ audioSrc' # audioSrc)
            => /\ audioRun.pc = "await"
               /\ \A i \in 1..Len(audioRun.promises) :
                     audioRun.promises[i].st = "fulfilled"
       /\ orphanSpeech' # orphanSpeech /\ audioRun' = audioRun
            => UNCHANGED <<audioSrc, audioBlob, error>>]_vars

\* a chunked generation has ended on a rejection, and its other request was
\* answered afterwards
C14_Witness ==
    /\ error = ErrAudio
    /\ audioSrc = Null
    /\ audioBlob = NoAudioBlob
    /\ ~isGeneratingAudio
    /\ audioRun.pc = "idle"
    /\ orphanSpeech = <<>>
    /\ generationProgress = ProgressCount(1, 2)

\* C15: whenever the results view is shown (isProcessed), analysisResults is
\* not null and holds a string for each of the three modes; so when the
\* Spanish text is displayed the fallback text can stand only for a result
\* that is the empty string, never for a missing one.
C15_ProcessedHasResults ==
    isProcessed =>
        /\ analysisResults # NullResults
        /\ \A m \in ResponseMode : analysisResults[m] \notin {Null, Undefined}
        /\ (displayedLanguage = "es" /\ ~Truthy(Lookup(analysisResults, activeTab)))
             => analysisResults[activeTab] = <<>>

\* the results view after a translation and a change of tab, with an analysis
\* whose concise summary came back empty
C15_Witness ==
    /\ isProcessed
    /\ translatedResults # NullResults
    /\ activeTab = "Completo"
    /\ analysisResults["Resumido"] = <<>>

\* C16: every chunk returned by splitTextIntoChunks is a non-empty string, for
\* every text and every maxLength >= 1.
C16_ChunksNonEmpty ==
    splitDone => \A i \in 1..Len(splitChunks) : splitChunks[i] # <<>>

\* C17: whenever the results view is shown, every translation that is stored
\* is the translation of the current analysis result of its mode.
C17_TranslationsOfCurrentAnalysis ==
    isProcessed =>
        \A m \in ResponseMode :
            Truthy(Lookup(translatedResults, m))
                => /\ Truthy(Lookup(analysisResults, m))
                   /\ translatedResults[m] = TranslationOf(analysisResults[m])

\* the MP3 blob a generation that succeeds publishes for a text and a language
SynthesizedFrom(textToSpeak, language) ==
    LET chunks == SpeechTexts(textToSpeak)
        arrayBuffers ==
            [i \in 1..Len(chunks) |->
                Atob(SpeechAnswer([text |-> cleanTextForSpeech(chunks[i]),
                                   voice |-> voiceName(language)]))]
    IN createMp3Blob(CombinePcm(arrayBuffers), 24000, 1).blob

\* C18: whenever the results view is shown and audio is offered (audioSrc is
\* not null), the audio is the one synthesized from the text of the tab that is
\* shown: the current analysis result of activeTab, or its stored translation,
\* in the language of the audio.
C18_AudioOfShownTab ==
    (isProcessed /\ audioSrc # Null) =>
        /\ Truthy(TextToSpeak(activeTab, audioBlob.lang))
        /\ audioBlob.blob
              = SynthesizedFrom(TextToSpeak(activeTab, audioBlob.lang), audioBlob.lang)

\* C19: whenever the results view is shown with displayedLanguage = 'en', a
\* translation is stored for the tab that is shown.
C19_EnglishHasTranslation ==
    (isProcessed /\ displayedLanguage = "en") =>
        Lookup(translatedResults, activeTab) \notin {Null, Undefined}

\* C20: generationProgress is not null only while isGeneratingAudio is true,
\* and a count it shows is the number of answered chunk requests of the
\* generation that is running.
C20_ProgressOnlyWhileGenerating ==
    generationProgress # NoProgress =>
        /\ isGeneratingAudio
        /\ audioRun.pc = "await"
        /\ generationProgress.kind = "count" /\ ~audioRun.single
             => /\ generationProgress.total = Len(audioRun.chunks)
                /\ generationProgress.completed = audioRun.completed

\* C21: a handler is suspended at its await exactly while its busy flag is
\* true, and a click that starts handleAnalysis, handleTranslate or
\* handleGenerateAudio finds no run of that handler in progress: at most one
\* run of each is in progress at any time.
C21_SameKindNeverOverlaps ==
    [][/\ isAnalyzing <=> (analysisRun.pc = "await")
       /\ isTranslating <=> (translateRun.pc = "await")
       /\ isGeneratingAudio <=> (audioRun.pc = "await")
       /\ (AnalyzeClick /\ analysisRun'.pc = "await") => analysisRun.pc = "idle"
       /\ (TranslateClick /\ translateRun'.pc = "await"
              /\ (displayedLanguage = "es" /\ ~isEnglishTranslated))
            => translateRun.pc = "idle"
       /\ \A language \in Languages :
             (GenerateAudioClick(language) /\ audioRun'.pc = "await")
                => audioRun.pc = "idle"]_vars

\* after a reset a new analysis is in progress while the translation asked for
\* the previous document is still in progress
C21_Witness ==
    /\ analysisRun.pc = "await"
    /\ translateRun.pc = "await"
    /\ isAnalyzing /\ isTranslating
    /\ ~isProcessed
====
